---------------------------- MODULE Spec2Model ----------------------------
(***************************************************************************)
(* Silver layer of the medical-analysis pipeline                           *)
(* (src/scripts/2_silver_layer_construction.py): SilverLayer.load_silver,  *)
(* its five transforms, the pandera schema contracts and _load_to_silver.  *)
(*                                                                         *)
(* A DataFrame is a sequence of rows (records); `df.empty` is Len = 0.     *)
(* Bronze columns are text (the Bronze stage reads every CSV column with   *)
(* dtype=str), so every Bronze value is a string or None.  Pass-through    *)
(* columns without any logic or constraint (provider_id, procedure_code)   *)
(* are left out of the rows.                                               *)
(***************************************************************************)
EXTENDS Integers, Sequences, FiniteSets, TLC

VARIABLES
    pc,                   \* position in __main__ / load_silver
    cur,                  \* index of the Bronze source / Silver target in progress
    cfgOk,                \* the connection URL can be built (create_engine succeeds)
    storeUp,              \* the relational store is reachable during this run
    faults,               \* transient store failures that may still happen
    now,                  \* wall clock, in days since 1970-01-01
    processing_timestamp, \* self.processing_timestamp (day of datetime.now())
    bronze,               \* bronze schema of the store: table -> rows
    bronze_dfs,           \* load_silver's bronze_dfs: source -> extracted rows
    read_failed,          \* sources whose read raised (logger.error, line 111)
    candidate,            \* target -> DataFrame returned by its transform
    validated,            \* targets whose load step reached schema.validate
    failure_cases,        \* target -> err.failure_cases of its SchemaErrors
    silver,               \* silver schema of the store: table -> rows or NoTable
    stats,                \* self.stats
    loaded,               \* tables logged as loaded (logger.info, line 128)
    summaries,            \* number of run summaries produced
    previous              \* outcome of the run before this one, NoRun if none

vars == << pc, cur, cfgOk, storeUp, faults, now, processing_timestamp, bronze,
           bronze_dfs, read_failed, candidate, validated, failure_cases,
           silver, stats, loaded, summaries, previous >>

---------------------------------------------------------------------------
(* Bounds of the model.                                                    *)
MaxPatients == 2
MaxEncounters == 2
MaxPayers == 2
MaxClaims == 1
MaxTrans == 2
MaxFaults == 1
MaxTicks == 1

---------------------------------------------------------------------------
(* Values.                                                                 *)
None == "None"
DEFAULT_STRING == "Unknown"
DEFAULT_PAYER == "Self-Pay / Unspecified"
SchemaValidationMarker == " (Schema Validation)"
\* a table that does not exist in the store
NoTable == << [no_such_table |-> TRUE] >>
\* no earlier run of the stage
NoRun == [no_run |-> TRUE]

NaT == [valid |-> FALSE, days |-> 0]
Date(n) == [valid |-> TRUE, days |-> n]
NaN == [valid |-> FALSE, val |-> 0]
Num(n) == [valid |-> TRUE, val |-> n]

\* pd.to_datetime(col, errors='coerce'): a date string becomes its date (here
\* the day number since 1970-01-01), None and any other text become NaT.
ToDatetime(s) ==
    CASE s = "1900-01-01" -> Date(0 - 25567)
      [] s = "2000-01-01" -> Date(10957)
      [] s = "2023-06-01" -> Date(19509)
      [] s = "2024-01-01" -> Date(19723)
      [] s = "2024-01-08" -> Date(19730)
      [] s = "2024-01-10" -> Date(19732)
      [] s = "2024-06-01" -> Date(19875)
      [] OTHER -> NaT

\* pd.to_numeric(col, errors='coerce'): numeric text becomes its number, None
\* and any other text become NaN.
ToNumeric(s) ==
    CASE s = "0" -> Num(0)
      [] s = "40" -> Num(40)
      [] s = "100" -> Num(100)
      [] s = "-5" -> Num(0 - 5)
      [] OTHER -> NaN

\* .fillna(0) on a numeric column
FillNa0(x) == IF x.valid THEN x.val ELSE 0

\* str.title() / str.upper(): a null stays null
Title(s) ==
    CASE s = "ana" -> "Ana"
      [] s = "LIMA" -> "Lima"
      [] OTHER -> s

Upper(s) ==
    CASE s = "charge" -> "CHARGE"
      [] s = "payment" -> "PAYMENT"
      [] s = "inpatient" -> "INPATIENT"
      [] s = "Unknown" -> "UNKNOWN"
      [] OTHER -> s

\* .replace({'M': 'Male', 'F': 'Female', 'O': 'Other'})
ReplaceGenderStrict(g) ==
    CASE g = "M" -> "Male"
      [] g = "F" -> "Female"
      [] g = "O" -> "Other"
      [] g \in {"Male", "Female", "Other", "Unknown"} -> g
      [] OTHER -> "Unknown"
ReplaceGender(g) ==
    CASE g = "M" -> "Male"
      [] g = "F" -> "Female"
      [] g = "O" -> "Other"
      [] OTHER -> g

\* .fillna(value) on a text column
FillNa(s, value) == IF s = None THEN value ELSE s

\* (x / 365.25).astype(int): the float is truncated toward zero.
\* x / 365.25 = 4x / 1461, and for an integer x the quotient is an integer or
\* at least 1/1461 away from one, so no rounding of the float changes it.
AstypeIntYears(x) ==
    IF x >= 0 THEN (4 * x) \div 1461 ELSE 0 - ((4 * (0 - x)) \div 1461)

\* (self.processing_timestamp - date_of_birth).dt.days: the whole days of the
\* difference, rounded down.  A date of birth is a midnight and the timestamp
\* has a time of day in [0, 1), so this is the difference of the day numbers.
DtDays(ts, dob) == ts - dob.days

\* The days the model's runs happen on: the last is 2024-01-01.
LastDay == ToDatetime("2024-01-01").days
FirstDay == LastDay - MaxTicks

---------------------------------------------------------------------------
(* Schema contracts (pandera DataFrameModels) and schema.validate.         *)

PATIENTS == "silver_patients_dim"
CLAIMS == "silver_claims_fact"
TRANSACTIONS == "silver_claims_transactions_fact"
ENCOUNTERS == "silver_encounters_fact"
PAYERS == "silver_payers_dim"

GenderEnum == {"Male", "Female", "Other", "Unknown"}

\* pa.Field(...): nullable defaults to False, unique to False.
Field(name, dtype, nullable, unique, check) ==
    [name |-> name, dtype |-> dtype, nullable |-> nullable, unique |-> unique,
     check |-> check]

SilverPatientSchema ==
    << Field("patient_id", "str", FALSE, TRUE, "none"),
       Field("first_name", "str", FALSE, FALSE, "none"),
       Field("last_name", "str", FALSE, FALSE, "none"),
       Field("date_of_birth", "datetime", FALSE, FALSE, "none"),
       Field("gender", "str", FALSE, FALSE, "gender"),
       Field("age", "int", FALSE, FALSE, "age"),
       Field("payer_id", "str", TRUE, FALSE, "none"),
       Field("payer_name", "str", FALSE, FALSE, "none"),
       Field("silver_processing_timestamp", "datetime", FALSE, FALSE, "none") >>

SilverClaimsSchema ==
    << Field("claim_id", "str", FALSE, TRUE, "none"),
       Field("patient_id", "str", FALSE, FALSE, "none"),
       Field("claim_start_date", "datetime", FALSE, FALSE, "none"),
       Field("claim_end_date", "datetime", TRUE, FALSE, "none"),
       Field("total_billed_amount", "float", FALSE, FALSE, "ge0"),
       Field("total_paid_amount", "float", FALSE, FALSE, "ge0"),
       Field("patient_responsibility_amount", "float", FALSE, FALSE, "ge0"),
       Field("silver_processing_timestamp", "datetime", FALSE, FALSE, "none") >>

SilverClaimsTransactionsSchema ==
    << Field("transaction_id", "str", FALSE, TRUE, "none"),
       Field("claim_id", "str", FALSE, FALSE, "none"),
       Field("transaction_date", "datetime", FALSE, FALSE, "none"),
       Field("transaction_amount", "float", FALSE, FALSE, "none"),
       Field("transaction_type", "str", TRUE, FALSE, "none"),
       Field("silver_processing_timestamp", "datetime", FALSE, FALSE, "none") >>

SilverEncountersSchema ==
    << Field("encounter_id", "str", FALSE, TRUE, "none"),
       Field("patient_id", "str", FALSE, FALSE, "none"),
       Field("payer_id", "str", TRUE, FALSE, "none"),
       Field("encounter_date", "datetime", FALSE, FALSE, "none"),
       Field("discharge_date", "datetime", TRUE, FALSE, "none"),
       Field("encounter_type", "str", TRUE, FALSE, "none"),
       Field("length_of_stay_days", "int", FALSE, FALSE, "ge0"),
       Field("total_claim_cost", "float", FALSE, FALSE, "ge0"),
       Field("payer_coverage", "float", FALSE, FALSE, "ge0"),
       Field("silver_processing_timestamp", "datetime", FALSE, FALSE, "none") >>

SilverPayersSchema ==
    << Field("payer_id", "str", FALSE, TRUE, "none"),
       Field("payer_name", "str", FALSE, FALSE, "none"),
       Field("silver_processing_timestamp", "datetime", FALSE, FALSE, "none") >>

\* The schema load_silver passes with each target table (lines 277-293).
SchemaOf(t) ==
    CASE t = PATIENTS -> SilverPatientSchema
      [] t = CLAIMS -> SilverClaimsSchema
      [] t = TRANSACTIONS -> SilverClaimsTransactionsSchema
      [] t = ENCOUNTERS -> SilverEncountersSchema
      [] t = PAYERS -> SilverPayersSchema

\* A null of the column's type.  Numeric columns of a candidate are never
\* null: every transform fills or casts them (.fillna(0), .astype(int)).
IsNull(dtype, v) ==
    CASE dtype = "str" -> v = None
      [] dtype = "datetime" -> ~v.valid
      [] OTHER -> FALSE

\* The Checks of a field that value v fails (pandera runs them on the
\* non-null values): isin, ge, le.
FailedChecks(check, v) ==
    CASE check = "gender" -> IF v \in GenderEnum THEN {} ELSE {"isin"}
      [] check = "ge0" -> IF v >= 0 THEN {} ELSE {"ge"}
      [] check = "age" ->
            (IF v >= 0 THEN {} ELSE {"ge"}) \cup (IF v <= 120 THEN {} ELSE {"le"})
      [] OTHER -> {}

Violation(f, i, reason) == [field |-> f.name, row |-> i, reason |-> reason]

\* The failure cases of one column: nulls of a non-nullable column, every
\* row of a duplicated value of a unique column (report_duplicates = "all"),
\* and every value failing a Check.
ColumnViolations(f, rows) ==
    LET n == Len(rows)
        nulls == {i \in 1..n : IsNull(f.dtype, rows[i][f.name])}
    IN  {Violation(f, i, "not_nullable") : i \in IF f.nullable THEN {} ELSE nulls}
        \cup {Violation(f, i, "field_uniqueness") :
                i \in {i \in 1..n : f.unique /\ \E j \in (1..n) \ {i} :
                                        rows[j][f.name] = rows[i][f.name]}}
        \cup UNION {{Violation(f, i, c) : c \in FailedChecks(f.check, rows[i][f.name])} :
                        i \in (1..n) \ nulls}

\* lazy=True (line 125): validate collects the failure cases of all columns
\* before raising SchemaErrors.
NotLazy == FALSE
Lazy == TRUE

RECURSIVE ValidateFrom(_, _, _)
ValidateFrom(k, schema, rows) ==
    IF k > Len(schema) THEN {}
    ELSE LET here == ColumnViolations(schema[k], rows)
         IN  IF Lazy THEN here \cup ValidateFrom(k + 1, schema, rows)
             ELSE IF here # {} THEN {CHOOSE v \in here : TRUE}
             ELSE ValidateFrom(k + 1, schema, rows)

\* err.failure_cases of schema.validate(df, lazy=True); {} when df is valid.
ValidateNothing(schema, rows) == {}
Validate(schema, rows) == ValidateFrom(1, schema, rows)

---------------------------------------------------------------------------
(* Transforms.                                                             *)

RECURSIVE Concat(_)
Concat(seqs) == IF seqs = << >> THEN << >> ELSE Head(seqs) \o Concat(Tail(seqs))

\* df.dropna(subset=cols) on text columns
DropNa(df, cols) == SelectSeq(df, LAMBDA r : \A c \in cols : r[c] # None)

\* sort_values('encounter_date'): the orders the sort may produce, each a
\* permutation of the row numbers.  Valid dates come first in ascending
\* order; the default quicksort is not stable, so rows of equal date may come
\* in any order.  NaT rows are put last (na_position='last'), in their
\* original order.
SortOrders(dates) ==
    LET n == Len(dates)
    IN  {o \in [1..n -> 1..n] :
            /\ \A i, j \in 1..n : i # j => o[i] # o[j]
            /\ \A i, j \in 1..n : i < j =>
                  \/ /\ dates[o[i]].valid
                     /\ dates[o[j]].valid
                     /\ dates[o[i]].days <= dates[o[j]].days
                  \/ /\ dates[o[i]].valid
                     /\ ~dates[o[j]].valid
                  \/ /\ ~dates[o[i]].valid
                     /\ ~dates[o[j]].valid
                     /\ o[i] < o[j]}

\* .drop_duplicates('patient_id', keep='last') on the sorted rows, read as a
\* lookup: the row number of the last sorted row of patient p, 0 if none.
LastOf(encs, order, p) ==
    LET at == {k \in 1..Len(encs) : encs[order[k]].patient_id = p}
    IN  IF at = {} THEN 0 ELSE order[CHOOSE k \in at : \A m \in at : m <= k]

\* lines 154-157: df.merge(patient_payer_map[['patient_id', 'payer_id']],
\* on='patient_id', how='left'); a patient without encounter gets a null.
MergedPayerId(encs, order, p) ==
    LET k == LastOf(encs, order, p)
    IN  IF k = 0 THEN None ELSE encs[k].payer_id

\* line 160: df_payers[['payer_id', 'payer_name']].dropna()
PayersClean(pays) == DropNa(pays, {"payer_id", "payer_name"})

\* line 162 / 164: the payer name of a row the payer merge left without one
FillPayerNameNever(name) == name
FillPayerName(name) == FillNa(name, DEFAULT_PAYER)

\* line 161: df.merge(payers_clean, on='payer_id', how='left'): one output
\* row per matching payer row, one with a null payer_name if none matches.
PayerNames(clean, pid) ==
    LET hit == SelectSeq(clean, LAMBDA y : y.payer_id = pid)
    IN  IF Len(hit) = 0 THEN << None >> ELSE [k \in 1..Len(hit) |-> hit[k].payer_name]

\* line 165: df['payer_id'] = None when there is no payer table
PayerIdKept(pid) == pid
PayerIdWithoutPayers(pid) == None

\* lines 146-151 for one row that passed dropna
CleanPatient(r, ts) ==
    LET dob == ToDatetime(r.date_of_birth)
    IN  [patient_id |-> r.patient_id,
         first_name |-> Title(r.first_name),
         last_name |-> Title(r.last_name),
         date_of_birth |-> dob,
         gender |-> ReplaceGender(FillNa(r.gender, DEFAULT_STRING)),
         age |-> AstypeIntYears(DtDays(ts, dob))]

WithPayer(r, pid, name) ==
    [patient_id |-> r.patient_id, first_name |-> r.first_name,
     last_name |-> r.last_name, date_of_birth |-> r.date_of_birth,
     gender |-> r.gender, age |-> r.age, payer_id |-> pid, payer_name |-> name]

\* _transform_patients; `order` is the order sort_values gave the encounters.
\*  - an unparseable date_of_birth is NaT, its age is NaN, and .astype(int)
\*    raises on it: the except clause returns the empty DataFrame;
\*  - without encounters df has no payer_id column, and the merge on
\*    'payer_id' (line 161) raises KeyError when there are payers.
TransformPatients(pats, encs, pays, ts, order) ==
    IF Len(pats) = 0 THEN << >>
    ELSE
      LET kept == DropNa(pats, {"patient_id", "date_of_birth", "first_name", "last_name"})
      IN  IF \E i \in 1..Len(kept) : ~ToDatetime(kept[i].date_of_birth).valid
          THEN << >>
          ELSE IF Len(encs) = 0 /\ Len(pays) # 0 THEN << >>
          ELSE
            LET df == [i \in 1..Len(kept) |-> CleanPatient(kept[i], ts)]
                pid(i) == IF Len(encs) = 0 THEN None
                          ELSE MergedPayerId(encs, order, df[i].patient_id)
            IN  IF Len(pays) # 0
                THEN Concat([i \in 1..Len(df) |->
                        LET names == PayerNames(PayersClean(pays), pid(i))
                        IN  [k \in 1..Len(names) |->
                                WithPayer(df[i], pid(i), FillPayerName(names[k]))]])
                ELSE [i \in 1..Len(df) |->
                        WithPayer(df[i], PayerIdWithoutPayers(pid(i)), DEFAULT_PAYER)]

RECURSIVE SumCol(_, _)
\* groupby(...).agg(sum) of one numeric column over the rows of a group
SumCol(rows, col) ==
    IF rows = << >> THEN 0
    ELSE FillNa0(ToNumeric(Head(rows)[col])) + SumCol(Tail(rows), col)

\* lines 183-190: the sums of the transactions of claim cid, 0 where the
\* left merge finds no group (.fillna(0))
ClaimFinancialsFirst(trans, cid, col) ==
    LET own == SelectSeq(trans, LAMBDA x : x.claim_id = cid)
    IN  IF own = << >> THEN 0 ELSE FillNa0(ToNumeric(own[1][col]))
ClaimFinancials(trans, cid, col) ==
    SumCol(SelectSeq(trans, LAMBDA x : x.claim_id = cid), col)

\* _transform_claims: dates are parsed before the dropna, so an unparseable
\* claim_start_date drops the row.
TransformClaims(claims, trans) ==
    IF Len(claims) = 0 THEN << >>
    ELSE
      LET kept == SelectSeq(claims, LAMBDA r :
                      /\ r.claim_id # None
                      /\ r.patient_id # None
                      /\ ToDatetime(r.claim_start_date).valid)
          total(r, col) == IF Len(trans) # 0 THEN ClaimFinancials(trans, r.claim_id, col)
                           ELSE 0
      IN  [i \in 1..Len(kept) |->
              [claim_id |-> kept[i].claim_id,
               patient_id |-> kept[i].patient_id,
               claim_start_date |-> ToDatetime(kept[i].claim_start_date),
               claim_end_date |-> ToDatetime(kept[i].claim_end_date),
               total_billed_amount |-> total(kept[i], "transaction_amount"),
               total_paid_amount |-> total(kept[i], "payments"),
               patient_responsibility_amount |-> total(kept[i], "outstanding")]]

\* line 209: df.dropna(subset=['transaction_id', 'claim_id',
\* 'transaction_date']), after the dates were parsed; no row is dropped for
\* any other reason.
KeptTransactions(trans) ==
    SelectSeq(trans, LAMBDA r :
        /\ r.transaction_id # None
        /\ r.claim_id # None
        /\ ToDatetime(r.transaction_date).valid)

KeptTransactionsDeduplicated(trans) ==
    LET kept == KeptTransactions(trans)
        first == {i \in 1..Len(kept) :
                    \A j \in 1..(i - 1) : kept[j].transaction_id # kept[i].transaction_id}
        nth(k) == CHOOSE i \in first : Cardinality({j \in first : j <= i}) = k
    IN  [k \in 1..Cardinality(first) |-> kept[nth(k)]]

\* line 209, as the transform uses it
DropNaTransactions(trans) == KeptTransactions(trans)

\* _transform_claims_transactions
TransformClaimsTransactions(trans) ==
    IF Len(trans) = 0 THEN << >>
    ELSE
      LET kept == DropNaTransactions(trans)
      IN  [i \in 1..Len(kept) |->
              [transaction_id |-> kept[i].transaction_id,
               claim_id |-> kept[i].claim_id,
               transaction_date |-> ToDatetime(kept[i].transaction_date),
               transaction_amount |-> FillNa0(ToNumeric(kept[i].transaction_amount)),
               transaction_type |-> Upper(kept[i].type)]]

\* lines 230-232: (discharge_date - encounter_date).dt.days, negative values
\* set to 0, NaN (no discharge date) filled with 0.  Dates are day numbers
\* here, so the whole days of the difference are their difference.
LengthOfStaySigned(enc, dis) == IF ~dis.valid THEN 0 ELSE dis.days - enc.days
LengthOfStay(enc, dis) ==
    IF ~dis.valid THEN 0
    ELSE IF dis.days - enc.days < 0 THEN 0
    ELSE dis.days - enc.days

\* _transform_encounters
TransformEncounters(encs) ==
    IF Len(encs) = 0 THEN << >>
    ELSE
      LET kept == SelectSeq(encs, LAMBDA r :
                      /\ r.encounter_id # None
                      /\ r.patient_id # None
                      /\ ToDatetime(r.encounter_date).valid)
      IN  [i \in 1..Len(kept) |->
              [encounter_id |-> kept[i].encounter_id,
               patient_id |-> kept[i].patient_id,
               payer_id |-> kept[i].payer_id,
               encounter_date |-> ToDatetime(kept[i].encounter_date),
               discharge_date |-> ToDatetime(kept[i].discharge_date),
               encounter_type |-> Upper(FillNa(kept[i].encounter_type, DEFAULT_STRING)),
               length_of_stay_days |-> LengthOfStay(ToDatetime(kept[i].encounter_date),
                                                    ToDatetime(kept[i].discharge_date)),
               total_claim_cost |-> FillNa0(ToNumeric(kept[i].total_claim_cost)),
               payer_coverage |-> FillNa0(ToNumeric(kept[i].payer_coverage))]]

\* _transform_payers
TransformPayers(pays) ==
    IF Len(pays) = 0 THEN << >>
    ELSE LET kept == PayersClean(pays)
         IN  [i \in 1..Len(kept) |->
                 [payer_id |-> kept[i].payer_id, payer_name |-> kept[i].payer_name]]

---------------------------------------------------------------------------
(* The run: __main__, SilverLayer.__init__, load_silver.                   *)

\* bronze_dfs keys, in the order load_silver extracts them (lines 266-270)
Sources == << "patients", "claims", "claims_transactions", "encounters", "payers" >>

\* target tables, in the order load_silver transforms and loads them
TargetsPayersFirst == << PAYERS, PATIENTS, CLAIMS, TRANSACTIONS, ENCOUNTERS >>
Targets == << PATIENTS, CLAIMS, TRANSACTIONS, ENCOUNTERS, PAYERS >>

SourceSet == {Sources[i] : i \in 1..Len(Sources)}
TargetSet == {Targets[i] : i \in 1..Len(Targets)}

\* Whether a call to the store succeeds: never while the store is
\* unreachable, otherwise it may fail while transient failures are left.
IoOutcomes ==
    IF ~storeUp THEN {FALSE}
    ELSE IF faults > 0 THEN {TRUE, FALSE}
    ELSE {TRUE}

FaultsAfter(failed) == IF failed /\ storeUp THEN faults - 1 ELSE faults

\* _get_db_engine: create_engine builds the URL and the engine object and
\* opens no connection (pool_pre_ping only tests a connection when one is
\* checked out), so it raises on a malformed URL and not on an unreachable
\* store.
EngineCreated(urlOk, reachable) == urlOk

\* pd.read_sql raises when the store call fails or the table does not exist
ReadRaises(ok, rows) == ~ok \/ rows = NoTable

\* _extract_from_bronze: the rows read, the empty DataFrame if the read raised
ExtractRaising(ok, rows) == IF ReadRaises(ok, rows) THEN NoTable ELSE rows
ExtractFromBronze(ok, rows) == IF ReadRaises(ok, rows) THEN << >> ELSE rows

\* line 120: df['silver_processing_timestamp'] = self.processing_timestamp
StampRowByRow(df, ts) ==
    [i \in 1..Len(df) |-> df[i] @@ ("silver_processing_timestamp" :> Date(ts + i - 1))]
Stamp(df, ts) ==
    [i \in 1..Len(df) |-> df[i] @@ ("silver_processing_timestamp" :> Date(ts))]

\* df.empty
EmptyNever(df) == FALSE
Empty(df) == Len(df) = 0

\* line 126: to_sql(..., if_exists='replace') drops the table and writes df;
\* pandas runs it in one transaction, so a failed write leaves the table.
ToSqlAppend(old, df) == IF old = NoTable THEN df ELSE old \o df
ToSql(old, df) == df

\* _load_to_silver without its effects: what the call ends as.
\*   "empty"  line 115: nothing to load
\*   "io"     line 134: the schema creation or the write raised
\*   "schema" line 131: schema.validate raised SchemaErrors
\*   "loaded" line 129
LoadKind(df, ts, schema, ddlOk, writeOk) ==
    IF Empty(df) THEN "empty"
    ELSE IF ~ddlOk THEN "io"
    ELSE IF Validate(schema, Stamp(df, ts)) # {} THEN "schema"
    ELSE IF ~writeOk THEN "io"
    ELSE "loaded"

\* the name _load_to_silver appends to stats['failed_tables']
FailedName(t, kind) == IF kind = "schema" THEN t \o SchemaValidationMarker ELSE t

\* lines 129-130: self.stats['loaded_tables'] += 1 and
\* self.stats['total_records'] += len(df_validated)
RecordLoadedOnly(st, n) == [st EXCEPT !.loaded_tables = @ + 1]
RecordLoaded(st, n) ==
    [st EXCEPT !.loaded_tables = @ + 1, !.total_records = @ + n]

\* lines 117, 133, 136: self.stats['failed_tables'].append(name)
RecordFailed(st, name) == [st EXCEPT !.failed_tables = Append(@, name)]

\* lines 131-136 catch every exception of the load, and every transform has
\* its own except clause: whatever the outcome of table i, load_silver goes
\* on to the next table, and to the summary after the last one.
AfterLoadUncaught(kind, i) ==
    IF kind \in {"schema", "io"} THEN "fatal"
    ELSE IF i < Len(Targets) THEN "transform" ELSE "summarize"
AfterLoadReturnsEarly(kind, i) ==
    IF kind \in {"schema", "io"} THEN "done"
    ELSE IF i < Len(Targets) THEN "transform" ELSE "summarize"
AfterLoad(kind, i) == IF i < Len(Targets) THEN "transform" ELSE "summarize"

\* the transform load_silver calls for target t (lines 276-292)
TransformOf(t, dfs, ts, order) ==
    CASE t = PATIENTS ->
            TransformPatients(dfs["patients"], dfs["encounters"], dfs["payers"], ts, order)
      [] t = CLAIMS -> TransformClaims(dfs["claims"], dfs["claims_transactions"])
      [] t = TRANSACTIONS -> TransformClaimsTransactions(dfs["claims_transactions"])
      [] t = ENCOUNTERS -> TransformEncounters(dfs["encounters"])
      [] t = PAYERS -> TransformPayers(dfs["payers"])

EncounterDates(encs) == [i \in 1..Len(encs) |-> ToDatetime(encs[i].encounter_date)]

\* __main__ line 317: SilverLayer(env_path).  An exception of _get_db_engine
\* propagates to the except clause of __main__ (logger.critical).
Construct ==
    /\ pc = "idle"
    /\ IF EngineCreated(cfgOk, storeUp)
       THEN /\ pc' = "extract"
            /\ cur' = 1
            /\ processing_timestamp' = now
            /\ stats' = [loaded_tables |-> 0, total_records |-> 0,
                         failed_tables |-> << >>]
       ELSE /\ pc' = "fatal"
            /\ UNCHANGED << cur, processing_timestamp, stats >>
    /\ UNCHANGED << cfgOk, storeUp, faults, now, bronze, bronze_dfs, read_failed,
                    candidate, validated, failure_cases, silver, loaded, summaries >>
    /\ UNCHANGED previous

\* one entry of the bronze_dfs dict (lines 265-271)
Extract ==
    /\ pc = "extract"
    /\ \E ok \in IoOutcomes :
          /\ bronze_dfs' = [bronze_dfs EXCEPT
                               ![Sources[cur]] = ExtractFromBronze(ok, bronze[Sources[cur]])]
          /\ read_failed' = IF ReadRaises(ok, bronze[Sources[cur]])
                             THEN read_failed \cup {Sources[cur]}
                             ELSE read_failed
          /\ faults' = FaultsAfter(~ok)
    /\ IF cur < Len(Sources)
       THEN /\ cur' = cur + 1
            /\ pc' = pc
       ELSE /\ cur' = 1
            /\ pc' = "transform"
    /\ UNCHANGED << cfgOk, storeUp, now, processing_timestamp, bronze, candidate,
                    validated, failure_cases, silver, stats, loaded, summaries >>
    /\ UNCHANGED previous

\* silver_x = self._transform_x(...)
Transform ==
    /\ pc = "transform"
    /\ \E order \in IF Targets[cur] = PATIENTS
                    THEN SortOrders(EncounterDates(bronze_dfs["encounters"]))
                    ELSE {<< >>} :
          candidate' = [candidate EXCEPT ![Targets[cur]] =
                           TransformOf(Targets[cur], bronze_dfs, processing_timestamp, order)]
    /\ pc' = "load"
    /\ UNCHANGED << cur, cfgOk, storeUp, faults, now, processing_timestamp, bronze,
                    bronze_dfs, read_failed, validated, failure_cases, silver,
                    stats, loaded, summaries >>
    /\ UNCHANGED previous

\* self._load_to_silver(silver_x, name, Schema)
Load ==
    /\ pc = "load"
    /\ \E ddlOk \in IoOutcomes, writeOk \in IoOutcomes :
          LET t == Targets[cur]
              df == Stamp(candidate[t], processing_timestamp)
              kind == LoadKind(candidate[t], processing_timestamp, SchemaOf(t),
                               ddlOk, writeOk)
              ran == kind \in {"schema", "loaded"} \/ (kind = "io" /\ ddlOk)
          IN  /\ validated' = IF ran THEN validated \cup {t} ELSE validated
              /\ failure_cases' = [failure_cases EXCEPT ![t] =
                                      IF ran THEN Validate(SchemaOf(t), df) ELSE {}]
              /\ silver' = IF kind = "loaded"
                           THEN [silver EXCEPT ![t] = ToSql(silver[t], df)]
                           ELSE silver
              /\ stats' = IF kind = "loaded"
                          THEN RecordLoaded(stats, Len(df))
                          ELSE RecordFailed(stats, FailedName(t, kind))
              /\ loaded' = IF kind = "loaded" THEN Append(loaded, t) ELSE loaded
              /\ faults' = FaultsAfter(kind = "io")
              /\ pc' = AfterLoad(kind, cur)
              /\ cur' = IF cur < Len(Targets) THEN cur + 1 ELSE cur
    /\ UNCHANGED << cfgOk, storeUp, now, processing_timestamp, bronze, bronze_dfs,
                    read_failed, candidate, summaries >>
    /\ UNCHANGED previous

\* self._summarize_run(), then "Processo da Camada Silver concluido."
Summarize ==
    /\ pc = "summarize"
    /\ summaries' = summaries + 1
    /\ pc' = "done"
    /\ UNCHANGED << cur, cfgOk, storeUp, faults, now, processing_timestamp, bronze,
                    bronze_dfs, read_failed, candidate, validated, failure_cases,
                    silver, stats, loaded >>
    /\ UNCHANGED previous

\* the wall clock passes midnight while the stage runs
Tick ==
    /\ pc \notin {"done", "fatal"}
    /\ now < LastDay
    /\ now' = now + 1
    /\ UNCHANGED << pc, cur, cfgOk, storeUp, faults, processing_timestamp, bronze,
                    bronze_dfs, read_failed, candidate, validated, failure_cases,
                    silver, stats, loaded, summaries, previous >>
    /\ UNCHANGED previous

---------------------------------------------------------------------------
(* Initial states: the Bronze tables of the store, the state of the store  *)
(* and of the configuration, before the stage starts.                      *)

Patient(id, first, last, dob, gender) ==
    [patient_id |-> id, first_name |-> first, last_name |-> last,
     date_of_birth |-> dob, gender |-> gender]

Encounter(id, patient, payer, start, stop, class, cost, coverage) ==
    [encounter_id |-> id, patient_id |-> patient, payer_id |-> payer,
     encounter_date |-> start, discharge_date |-> stop, encounter_type |-> class,
     total_claim_cost |-> cost, payer_coverage |-> coverage]

Payer(id, name) == [payer_id |-> id, payer_name |-> name]

Claim(id, patient, start, end) ==
    [claim_id |-> id, patient_id |-> patient, claim_start_date |-> start,
     claim_end_date |-> end]

Transaction(id, claim, date, amount, payments, outstanding, type) ==
    [transaction_id |-> id, claim_id |-> claim, transaction_date |-> date,
     transaction_amount |-> amount, payments |-> payments,
     outstanding |-> outstanding, type |-> type]

\* a Bronze table: missing, or at least one row (the Bronze stage loads no
\* empty file)
TablesUpTo(rows, n) == {NoTable} \cup UNION {[1..k -> rows] : k \in 1..n}

P1 == Patient("p1", "ana", "LIMA", "2000-01-01", "F")
P2 == Patient("p2", "ana", "LIMA", "2000-01-01", "M")

PatientRows ==
    {Patient("p1", "ana", "LIMA", d, "F") :
        d \in {"2000-01-01", "2024-06-01", "1900-01-01", "n/a", None}}
    \cup {Patient("p1", "ana", "LIMA", "2000-01-01", g) : g \in {"O", "X", None, "Male"}}
    \cup {P2, Patient(None, "ana", "LIMA", "2000-01-01", "F"),
          Patient("p2", None, "LIMA", "2000-01-01", "F"),
          Patient("p2", "ana", None, "2000-01-01", "F"),
          Patient("p2", "ana", "LIMA", "1900-01-01", "X")}

E1 == Encounter("e1", "p1", "y1", "2024-01-08", "2024-01-10", "inpatient", "100", "40")

\* encounters for the payer enrichment: the patient, the payer and the date vary
EncounterRows ==
    {Encounter("e1", "p1", "y1", d, "2024-01-10", "inpatient", "100", "40") :
        d \in {"2023-06-01", "2024-01-08"}}
    \cup {Encounter("e1", "p1", "y2", d, "2024-01-10", "inpatient", "100", "40") :
            d \in {"2024-01-08", None}}
    \cup {Encounter("e1", "p1", None, "2024-01-08", None, "inpatient", "100", "40"),
          Encounter("e1", "p1", "y1", "2024-01-10", "2024-01-08", "inpatient", "100", "40"),
          Encounter("e1", "p2", "y1", "n/a", "2024-01-10", None, "100", "-5")}

\* rows of one table get the encounter ids e1, e2, ... of their positions
EncounterIds == << "e1", "e2", "e3", "e4" >>
Numbered(encs) ==
    IF encs = NoTable THEN NoTable
    ELSE [i \in 1..Len(encs) |-> [encs[i] EXCEPT !.encounter_id = EncounterIds[i]]]

Y1 == Payer("y1", "Acme")
PayerRows == {Y1, Payer("y1", "Acme Health"), Payer("y3", None)}

C1Row == Claim("c1", "p1", "2024-01-08", "2024-01-10")
ClaimRows == {C1Row, Claim("c1", "p1", "n/a", None), Claim(None, "p1", "2024-01-08", None),
              Claim("c2", None, "2024-01-08", None)}

T1 == Transaction("t1", "c1", "2024-01-08", "100", "40", "0", "charge")
TransactionRows ==
    {Transaction("t1", "c1", "2024-01-08", a, "40", "0", "charge") :
        a \in {"100", "-5", "abc"}}
    \cup {Transaction("t2", "c1", "2024-01-08", "100", "40", "0", "charge"),
          Transaction(None, "c1", "2024-01-08", "100", "40", "0", "charge"),
          Transaction("t1", None, "2024-01-08", "100", "40", "0", "charge"),
          Transaction("t2", "c1", "n/a", "100", "40", "0", "payment"),
          Transaction("t2", "c2", "2024-01-10", None, None, "40", None)}

Bronze(pats, claims, trans, encs, pays) ==
    [s \in SourceSet |->
        CASE s = "patients" -> pats
          [] s = "claims" -> claims
          [] s = "claims_transactions" -> trans
          [] s = "encounters" -> encs
          [] s = "payers" -> pays]

GoodBronze == Bronze(<< P1, P2 >>, << C1Row >>, << T1 >>, << E1 >>, << Y1 >>)

\* Silver tables left by an earlier run over GoodBronze, the day before
PriorSilver ==
    LET ts == FirstDay - 1
        dfs == [s \in SourceSet |-> GoodBronze[s]]
    IN  [t \in TargetSet |-> Stamp(TransformOf(t, dfs, ts, << 1 >>), ts)]

NoSilver == [t \in TargetSet |-> NoTable]

Start(b, cfg, up, f, day, sv) ==
    /\ pc = "idle"
    /\ cur = 0
    /\ cfgOk = cfg
    /\ storeUp = up
    /\ faults = f
    /\ now = day
    /\ processing_timestamp = 0
    /\ bronze = b
    /\ bronze_dfs = [s \in SourceSet |-> << >>]
    /\ read_failed = {}
    /\ candidate = [t \in TargetSet |-> << >>]
    /\ validated = {}
    /\ failure_cases = [t \in TargetSet |-> {}]
    /\ silver = sv
    /\ stats = [loaded_tables |-> 0, total_records |-> 0, failed_tables |-> << >>]
    /\ loaded = << >>
    /\ summaries = 0
    /\ previous = NoRun

\* row-level cleaning of patients: every patient row, with and without
\* encounters and payers
InitPatients ==
    \E pats \in TablesUpTo(PatientRows, MaxPatients), joined \in BOOLEAN :
        Start(Bronze(pats, << C1Row >>, << T1 >>,
                     IF joined THEN << E1 >> ELSE NoTable,
                     IF joined THEN << Y1 >> ELSE NoTable),
              TRUE, TRUE, 0, LastDay, NoSilver)

\* payer enrichment: every encounter and payer table
InitEnrichment ==
    \E encs \in TablesUpTo(EncounterRows, MaxEncounters),
       pays \in TablesUpTo(PayerRows, MaxPayers) :
        Start(Bronze(<< P1, P2 >>, << C1Row >>, << T1 >>, Numbered(encs), pays),
              TRUE, TRUE, 0, LastDay, NoSilver)

\* claims and their transactions
InitFacts ==
    \E claims \in TablesUpTo(ClaimRows, MaxClaims),
       trans \in TablesUpTo(TransactionRows, MaxTrans) :
        Start(Bronze(<< P1 >>, claims, trans, << E1 >>, << Y1 >>),
              TRUE, TRUE, 0, LastDay, NoSilver)

\* the store: unreachable, failing now and then, holding earlier Silver
\* tables; the configuration: broken or not; each table valid or not
InitStore ==
    \E pats \in {<< P1, P2 >>, << P1, Patient("p2", "ana", "LIMA", "2000-01-01", "X") >>},
       claims \in {<< C1Row >>, << C1Row, C1Row >>},
       trans \in {<< T1 >>, << T1, T1 >>},
       encs \in {<< E1 >>, << [E1 EXCEPT !.total_claim_cost = "-5"] >>},
       pays \in {<< Y1 >>, << Y1, Y1 >>},
       cfg \in BOOLEAN, up \in BOOLEAN, f \in 0..MaxFaults, sv \in {NoSilver, PriorSilver} :
        /\ ~cfg => (up /\ f = 0)
        /\ ~up => f = 0
        /\ Start(Bronze(pats, claims, trans, encs, pays), cfg, up, f, FirstDay, sv)

Init == InitPatients \/ InitEnrichment \/ InitFacts \/ InitStore

Next == Construct \/ Extract \/ Transform \/ Load \/ Summarize \/ Tick

Spec == Init /\ [][Next]_vars

\* a store call of the current run raised for a transient failure: a read
\* of an existing Bronze table, or the load of a non-empty candidate that
\* was recorded as failed without the schema-validation marker
StoreCallFailed ==
    \/ \E s \in read_failed : bronze[s] # NoTable
    \/ \E i \in 1..Len(Targets) :
          /\ Targets[i] \in {stats.failed_tables[k] : k \in DOMAIN stats.failed_tables}
          /\ candidate[Targets[i]] # << >>

\* __main__ is executed again over the same store: a new SilverLayer, new
\* stats, a new bronze_dfs; the Silver tables of the run before stay in the
\* store.  `previous` keeps what the finished run produced.
Rerun ==
    /\ pc = "done"
    /\ previous = NoRun
    /\ previous' = [silver |-> silver, stats |-> stats,
                    processing_timestamp |-> processing_timestamp,
                    clean |-> ~StoreCallFailed]
    /\ pc' = "idle"
    /\ cur' = 0
    /\ bronze_dfs' = [s \in SourceSet |-> << >>]
    /\ read_failed' = {}
    /\ candidate' = [t \in TargetSet |-> << >>]
    /\ validated' = {}
    /\ failure_cases' = [t \in TargetSet |-> {}]
    /\ stats' = [loaded_tables |-> 0, total_records |-> 0, failed_tables |-> << >>]
    /\ loaded' = << >>
    /\ summaries' = 0
    /\ UNCHANGED << cfgOk, storeUp, faults, now, processing_timestamp, bronze, silver >>

\* the steps of the program: the interpreter always takes the next one
Run == Construct \/ Extract \/ Transform \/ Load \/ Summarize

\* a run whose steps are not postponed forever
LiveSpec == Init /\ [][Next]_vars /\ WF_vars(Run)

NextRerun == Next \/ Rerun

\* the stage run once, and possibly once more over the same store
SpecRerun == Init /\ [][NextRerun]_vars

---------------------------------------------------------------------------
(* Properties.                                                             *)

Range(f) == {f[i] : i \in DOMAIN f}

\* the load step of the i-th target has completed / its transform has run
LoadDone(i) == pc \in {"summarize", "done"} \/ (pc \in {"transform", "load"} /\ cur > i)
TransformDone(i) == LoadDone(i) \/ (pc = "load" /\ cur = i)

TimesLoaded(t) == Cardinality({k \in DOMAIN loaded : loaded[k] = t})
TimesFailed(t) ==
    Cardinality({k \in DOMAIN stats.failed_tables :
                    stats.failed_tables[k] \in {t, t \o " (Schema Validation)"}})

FiveTables ==
    << "silver_patients_dim", "silver_claims_fact", "silver_claims_transactions_fact",
       "silver_encounters_fact", "silver_payers_dim" >>

\* C1: a failure of one target table never keeps the others from being
\* attempted: once the run is constructed it never ends as fatal, the
\* tables are taken in turn, every table whose load step is over has exactly
\* one outcome (loaded or failed), and at the summary all five have one.
C1_EveryTableAttempted ==
    /\ pc = "fatal" => (cur = 0 /\ ~cfgOk)
    /\ pc \in {"transform", "load"} => cur \in 1..5
    /\ \A i \in 1..5 :
          /\ LoadDone(i) => TimesLoaded(FiveTables[i]) + TimesFailed(FiveTables[i]) = 1
          /\ ~LoadDone(i) => TimesLoaded(FiveTables[i]) + TimesFailed(FiveTables[i]) = 0
          /\ (pc \in {"transform", "load"} /\ cur = i) => Targets[i] = FiveTables[i]

\* C1 witness: a run that ended with one table rejected by validation, one
\* failed by a store exception, and a later table loaded
C1_Witness ==
    /\ pc = "done"
    /\ PATIENTS \o " (Schema Validation)" \in Range(stats.failed_tables)
    /\ CLAIMS \in Range(stats.failed_tables)
    /\ CLAIMS \in validated
    /\ PAYERS \in Range(loaded)

\* the declared constraint of field f, said directly of row i of a table
Meets(f, rows, i) ==
    LET v == rows[i][f.name]
    IN  /\ IsNull(f.dtype, v) => f.nullable
        /\ f.unique => \A j \in 1..Len(rows) : rows[j][f.name] = v => j = i
        /\ (~IsNull(f.dtype, v) /\ f.check = "gender") =>
              v \in {"Male", "Female", "Other", "Unknown"}
        /\ (~IsNull(f.dtype, v) /\ f.check = "ge0") => v >= 0
        /\ (~IsNull(f.dtype, v) /\ f.check = "age") => (v >= 0 /\ v <= 120)

\* a table that satisfies every declared constraint
Satisfies(schema, rows) ==
    \A k \in 1..Len(schema), i \in 1..Len(rows) : Meets(schema[k], rows, i)

\* C2: validation gates promotion: a step that changes a Silver table is the
\* load step of that table, it has validated the candidate it writes, and
\* what it writes satisfies every declared constraint.
C2_ValidationGatesPromotion ==
    [][\A t \in TargetSet :
          silver'[t] # silver[t] =>
              /\ pc = "load"
              /\ Targets[cur] = t
              /\ t \in validated'
              /\ failure_cases'[t] = {}
              /\ silver'[t] = Stamp(candidate[t], processing_timestamp)
              /\ Satisfies(SchemaOf(t), silver'[t])]_vars

\* C2 witness: one table was written while a candidate with violations was
\* kept out of the store
C2_Witness ==
    /\ pc = "done"
    /\ CLAIMS \in Range(loaded)
    /\ silver[CLAIMS] = Stamp(candidate[CLAIMS], processing_timestamp)
    /\ ~Satisfies(SchemaOf(PAYERS), Stamp(candidate[PAYERS], processing_timestamp))
    /\ silver[PAYERS] = PriorSilver[PAYERS]

\* C3: no rollback, no partial overwrite: a step that records a table as
\* failed changes no Silver table; a Silver table changes only in the step
\* that records it as loaded, which leaves the other tables alone and
\* replaces the table by the run's validated candidate in full.
C3_NoRollbackNoPartialOverwrite ==
    [][/\ Len(stats'.failed_tables) > Len(stats.failed_tables) => silver' = silver
       /\ \A t \in TargetSet :
             silver'[t] # silver[t] =>
                 /\ pc = "load"
                 /\ Targets[cur] = t
                 /\ loaded' = Append(loaded, t)
                 /\ stats'.failed_tables = stats.failed_tables
                 /\ silver'[t] = Stamp(candidate[t], processing_timestamp)
                 /\ \A u \in TargetSet \ {t} : silver'[u] = silver[u]]_vars

\* C3 witness: after a run, a failed table still holds the rows of the
\* earlier run and a loaded one holds only the new rows
C3_Witness ==
    /\ pc = "done"
    /\ TimesFailed(PATIENTS) = 1
    /\ silver[PATIENTS] = PriorSilver[PATIENTS]
    /\ PAYERS \in Range(loaded)
    /\ silver[PAYERS] # PriorSilver[PAYERS]
    /\ silver[PAYERS] = Stamp(candidate[PAYERS], processing_timestamp)

\* C4 (as claimed): with the store unreachable the run is aborted during
\* initialization: nothing is extracted, transformed or loaded and no
\* summary is produced.
C4_UnreachableStoreIsFatal ==
    ~storeUp => /\ read_failed = {}
                /\ stats.failed_tables = << >>
                /\ summaries = 0
                /\ pc # "done"

\* the Bronze tables each transform is given (lines 276-292), the first
\* being the one its `if df.empty: return` guard tests
SourcesOf(t) ==
    CASE t = PATIENTS -> << "patients", "encounters", "payers" >>
      [] t = CLAIMS -> << "claims", "claims_transactions" >>
      [] t = TRANSACTIONS -> << "claims_transactions" >>
      [] t = ENCOUNTERS -> << "encounters" >>
      [] t = PAYERS -> << "payers" >>

\* C5 (as claimed): a failed read gives an empty table, and every transform
\* that has the table among its sources returns the empty result, its
\* target being recorded as failed.
C5_AnyFailedSourceShortCircuits ==
    /\ \A s \in read_failed : bronze_dfs[s] = << >> /\ pc # "fatal"
    /\ \A i \in 1..5 :
          (\E s \in Range(SourcesOf(Targets[i])) : s \in read_failed) =>
              /\ TransformDone(i) => candidate[Targets[i]] = << >>
              /\ LoadDone(i) => Targets[i] \in Range(stats.failed_tables)

\* C5 (amended): a failed read gives an empty table instead of an exception;
\* the transform whose first source the table is returns the empty result,
\* its target is recorded as failed (as an empty candidate, unvalidated,
\* nothing loaded) and the run goes on to the next table.
C5_FailedPrimarySourceShortCircuits ==
    /\ \A s \in read_failed : bronze_dfs[s] = << >> /\ pc # "fatal"
    /\ \A i \in 1..5 :
          SourcesOf(Targets[i])[1] \in read_failed =>
              /\ TransformDone(i) => candidate[Targets[i]] = << >>
              /\ LoadDone(i) =>
                    /\ Targets[i] \in Range(stats.failed_tables)
                    /\ Targets[i] \notin Range(loaded)
                    /\ Targets[i] \notin validated
                    /\ i < 5 => (pc \in {"transform", "load"} \/ LoadDone(i + 1))

\* C5 witness: the read of claims failed, silver_claims_fact was recorded as
\* failed and a later table was still loaded
C5_Witness ==
    /\ pc = "done"
    /\ "claims" \in read_failed
    /\ CLAIMS \in Range(stats.failed_tables)
    /\ PAYERS \in Range(loaded)

\* the (field, row) pairs of a table that break the contract
Offending(schema, rows) ==
    {p \in (1..Len(schema)) \X (1..Len(rows)) : ~Meets(schema[p[1]], rows, p[2])}

\* C6: validation is exhaustive: a validated candidate is accepted only with
\* no offending (field, row) pair; otherwise it is rejected (recorded with
\* the schema-validation marker, not loaded) with a report that has a
\* failure case for every offending pair of every field; a patient row of
\* gender "X" makes the patients table be rejected.
C6_ValidationIsExhaustive ==
    \A i \in 1..5 :
        LET t == Targets[i]
            rows == Stamp(candidate[t], processing_timestamp)
            off == Offending(SchemaOf(t), rows)
        IN  (LoadDone(i) /\ t \in validated) =>
              /\ failure_cases[t] = {} <=> off = {}
              /\ \A p \in off : \E v \in failure_cases[t] :
                    v.field = SchemaOf(t)[p[1]].name /\ v.row = p[2]
              /\ \A v \in failure_cases[t] : \E p \in off :
                    v.field = SchemaOf(t)[p[1]].name /\ v.row = p[2]
              /\ failure_cases[t] # {} =>
                    /\ t \o " (Schema Validation)" \in Range(stats.failed_tables)
                    /\ t \notin Range(loaded)
              /\ failure_cases[t] = {} => t \o " (Schema Validation)" \notin Range(stats.failed_tables)
              /\ (t = PATIENTS /\ \E k \in 1..Len(rows) : rows[k].gender = "X") =>
                    \E v \in failure_cases[t] : v.field = "gender" /\ v.reason = "isin"

\* C6 witness: a patients candidate with a row of gender "X" and an age
\* above 120 was rejected with both failure cases in the report
C6_Witness ==
    /\ LoadDone(1)
    /\ PATIENTS \in validated
    /\ \E k \in 1..Len(candidate[PATIENTS]) :
          /\ candidate[PATIENTS][k].gender = "X"
          /\ candidate[PATIENTS][k].age > 120
          /\ \E v \in failure_cases[PATIENTS] : v.field = "gender" /\ v.row = k
          /\ \E v \in failure_cases[PATIENTS] : v.field = "age" /\ v.row = k
    /\ PATIENTS \o " (Schema Validation)" \in Range(stats.failed_tables)

\* the transaction source has two rows of one transaction_id, both with
\* transaction_id, claim_id and a parseable transaction_date
DuplicateTransactions ==
    LET src == bronze_dfs["claims_transactions"]
    IN  {p \in (1..Len(src)) \X (1..Len(src)) :
            /\ p[1] < p[2]
            /\ src[p[1]].transaction_id = src[p[2]].transaction_id
            /\ \A k \in {p[1], p[2]} :
                  /\ src[k].transaction_id # None
                  /\ src[k].claim_id # None
                  /\ ToDatetime(src[k].transaction_date).valid}

\* the rows of the transaction candidate with a given transaction_id
CandidateRowsOf(id) ==
    {k \in 1..Len(candidate[TRANSACTIONS]) : candidate[TRANSACTIONS][k].transaction_id = id}

\* C7 (as claimed): duplicate transaction ids are kept by the transform, and
\* the table is then rejected for the uniqueness of transaction_id,
\* recorded as failed with the schema-validation marker, and not written.
C7_DuplicatesRejectedByValidation ==
    \A p \in DuplicateTransactions :
        LET id == bronze_dfs["claims_transactions"][p[1]].transaction_id
        IN  /\ TransformDone(3) => Cardinality(CandidateRowsOf(id)) >= 2
            /\ LoadDone(3) =>
                  /\ \E v \in failure_cases[TRANSACTIONS] :
                        v.field = "transaction_id" /\ v.reason = "field_uniqueness"
                  /\ TRANSACTIONS \o " (Schema Validation)" \in Range(stats.failed_tables)
                  /\ TRANSACTIONS \notin Range(loaded)

\* C7 (amended): duplicate transaction ids are kept by the transform and the
\* table is never written; when the load step reaches validation (its
\* schema-creation statement did not raise) the table is rejected for the
\* uniqueness of transaction_id, with every duplicate row reported, and
\* recorded as failed with the schema-validation marker; when that
\* statement raises, the table is recorded as failed without the marker.
C7_DuplicatesNeverLoaded ==
    \A p \in DuplicateTransactions :
        LET id == bronze_dfs["claims_transactions"][p[1]].transaction_id
        IN  /\ TransformDone(3) => Cardinality(CandidateRowsOf(id)) >= 2
            /\ LoadDone(3) =>
                  /\ TRANSACTIONS \notin Range(loaded)
                  /\ TimesFailed(TRANSACTIONS) = 1
                  /\ TRANSACTIONS \in validated =>
                        /\ \A k \in CandidateRowsOf(id) :
                              \E v \in failure_cases[TRANSACTIONS] :
                                  /\ v.field = "transaction_id"
                                  /\ v.reason = "field_uniqueness"
                                  /\ v.row = k
                        /\ TRANSACTIONS \o " (Schema Validation)"
                              \in Range(stats.failed_tables)
                  /\ TRANSACTIONS \notin validated =>
                        TRANSACTIONS \in Range(stats.failed_tables)

\* C7 witness: two transactions of one id reached validation and the table
\* was recorded with the schema-validation marker
C7_Witness ==
    /\ LoadDone(3)
    /\ DuplicateTransactions # {}
    /\ TRANSACTIONS \in validated
    /\ Len(candidate[TRANSACTIONS]) = 2
    /\ TRANSACTIONS \o " (Schema Validation)" \in Range(stats.failed_tables)

\* C8 (as claimed): the age of every output patient row is
\* floor(d / 365.25) = floor(4d / 1461), d the whole days from the date of
\* birth to the processing timestamp, also for a negative d.
C8_AgeIsFloor ==
    TransformDone(1) =>
        \A k \in 1..Len(candidate[PATIENTS]) :
            LET r == candidate[PATIENTS][k]
            IN  r.age = (4 * (processing_timestamp - r.date_of_birth.days)) \div 1461

\* the encounters of patient p in the encounter source that have a date
DatedEncounters(p) ==
    LET src == bronze_dfs["encounters"]
    IN  {k \in 1..Len(src) :
            src[k].patient_id = p /\ ToDatetime(src[k].encounter_date).valid}

\* C9 (as claimed, where there are payers): the payer_id of an output
\* patient row is that of an encounter of the patient with the latest
\* encounter_date; an encounter without a valid date is never chosen over
\* one of the same patient that has a valid date.
C9_PayerOfLatestEncounter ==
    (TransformDone(1) /\ Len(bronze_dfs["payers"]) > 0) =>
        \A k \in 1..Len(candidate[PATIENTS]) :
            LET r == candidate[PATIENTS][k]
                src == bronze_dfs["encounters"]
                own == DatedEncounters(r.patient_id)
                day(e) == ToDatetime(src[e].encounter_date).days
            IN  own # {} =>
                  \E e \in own : /\ \A o \in own : day(o) <= day(e)
                                 /\ r.payer_id = src[e].payer_id

\* C10: without payers every output patient row has the default payer name
\* and a null payer_id, whether or not the patient has encounters; with
\* payers, a row whose payer_id is null or matches no payer row has the
\* default payer name; no output row has a null payer_name.
C10_DefaultPayer ==
    TransformDone(1) =>
        \A k \in 1..Len(candidate[PATIENTS]) :
            LET r == candidate[PATIENTS][k]
                pays == bronze_dfs["payers"]
            IN  /\ r.payer_name # None
                /\ Len(pays) = 0 =>
                      (r.payer_name = "Self-Pay / Unspecified" /\ r.payer_id = None)
                /\ (/\ Len(pays) > 0
                    /\ \/ r.payer_id = None
                       \/ \A y \in 1..Len(pays) : pays[y].payer_id # r.payer_id) =>
                      r.payer_name = "Self-Pay / Unspecified"

\* C10 witness: no payers, and a patient whose encounter names a payer is
\* output with the default payer name and no payer_id
C10_Witness ==
    /\ TransformDone(1)
    /\ Len(bronze_dfs["payers"]) = 0
    /\ \E k \in 1..Len(candidate[PATIENTS]) :
          /\ candidate[PATIENTS][k].payer_id = None
          /\ candidate[PATIENTS][k].payer_name = "Self-Pay / Unspecified"
          /\ \E e \in DatedEncounters(candidate[PATIENTS][k].patient_id) :
                bronze_dfs["encounters"][e].payer_id # None

\* what a text value counts as in a sum: its number, 0 if it is not one
CountsAs(s) == IF ToNumeric(s).valid THEN ToNumeric(s).val ELSE 0

RECURSIVE SumOfRows(_, _, _)
\* the sum of column col over the rows S of table src
SumOfRows(src, S, col) ==
    IF S = {} THEN 0
    ELSE LET k == CHOOSE k \in S : TRUE
         IN  CountsAs(src[k][col]) + SumOfRows(src, S \ {k}, col)

\* the transactions of the transaction source that carry claim_id cid
TransactionsOf(cid) ==
    {k \in 1..Len(bronze_dfs["claims_transactions"]) :
        bronze_dfs["claims_transactions"][k].claim_id = cid}

\* C11: in every output claim row the three totals are the sums of
\* transaction_amount, payments and outstanding over all source
\* transactions of the same claim_id, a non-numeric or missing value
\* counting as 0; a claim without transactions (also when the transaction
\* source is empty) has three zeros; a total is always a number.
C11_ClaimTotalsAreSums ==
    TransformDone(2) =>
        \A k \in 1..Len(candidate[CLAIMS]) :
            LET r == candidate[CLAIMS][k]
                src == bronze_dfs["claims_transactions"]
                own == TransactionsOf(r.claim_id)
            IN  /\ r.total_billed_amount \in Int
                /\ r.total_paid_amount \in Int
                /\ r.patient_responsibility_amount \in Int
                /\ r.total_billed_amount = SumOfRows(src, own, "transaction_amount")
                /\ r.total_paid_amount = SumOfRows(src, own, "payments")
                /\ r.patient_responsibility_amount = SumOfRows(src, own, "outstanding")
                /\ own = {} => /\ r.total_billed_amount = 0
                               /\ r.total_paid_amount = 0
                               /\ r.patient_responsibility_amount = 0

\* C11 witness: a claim with two transactions, one of them with a
\* non-numeric amount, is output with the totals of both
C11_Witness ==
    /\ TransformDone(2)
    /\ \E k \in 1..Len(candidate[CLAIMS]) :
          LET r == candidate[CLAIMS][k]
              src == bronze_dfs["claims_transactions"]
          IN  /\ Cardinality(TransactionsOf(r.claim_id)) = 2
              /\ \E a \in TransactionsOf(r.claim_id) :
                    ~ToNumeric(src[a].transaction_amount).valid
              /\ r.total_billed_amount = 100
              /\ r.total_paid_amount = 80

\* the rows of the encounter source the encounter transform keeps: those
\* with encounter_id, patient_id and a parseable encounter_date
KeptEncounters ==
    {s \in 1..Len(bronze_dfs["encounters"]) :
        /\ bronze_dfs["encounters"][s].encounter_id # None
        /\ bronze_dfs["encounters"][s].patient_id # None
        /\ ToDatetime(bronze_dfs["encounters"][s].encounter_date).valid}

\* whole days from encounter_date to discharge_date of source row s, not
\* below 0; 0 without a parseable discharge_date
StayOf(s) ==
    LET enc == ToDatetime(bronze_dfs["encounters"][s].encounter_date)
        dis == ToDatetime(bronze_dfs["encounters"][s].discharge_date)
        d == dis.days - enc.days
    IN  IF dis.valid THEN (IF d > 0 THEN d ELSE 0) ELSE 0

\* C12: every kept encounter is output, in source order, with
\* length_of_stay_days = max(0, days from encounter_date to discharge_date),
\* 0 without a parseable discharge_date; the value is never negative, and
\* validation reports no failure case of length_of_stay_days, so a row whose
\* discharge precedes its start is not rejected for it.
C12_LengthOfStay ==
    /\ TransformDone(4) =>
          /\ Len(candidate[ENCOUNTERS]) = Cardinality(KeptEncounters)
          /\ \A s \in KeptEncounters :
                LET k == Cardinality({x \in KeptEncounters : x <= s})
                    r == candidate[ENCOUNTERS][k]
                IN  /\ r.encounter_id = bronze_dfs["encounters"][s].encounter_id
                    /\ r.length_of_stay_days = StayOf(s)
                    /\ r.length_of_stay_days \in Nat
    /\ \A v \in failure_cases[ENCOUNTERS] : v.field # "length_of_stay_days"

\* C12 witness: an encounter of 2024-01-10 discharged on 2024-01-08 was
\* output with 0 days, validated and loaded
C12_Witness ==
    /\ LoadDone(4)
    /\ ENCOUNTERS \in Range(loaded)
    /\ \E s \in KeptEncounters :
          /\ bronze_dfs["encounters"][s].encounter_date = "2024-01-10"
          /\ bronze_dfs["encounters"][s].discharge_date = "2024-01-08"
          /\ \E k \in 1..Len(silver[ENCOUNTERS]) :
                /\ silver[ENCOUNTERS][k].encounter_id = bronze_dfs["encounters"][s].encounter_id
                /\ silver[ENCOUNTERS][k].length_of_stay_days = 0

\* the rows of the patient source with the four required fields
RequiredPatients ==
    {s \in 1..Len(bronze_dfs["patients"]) :
        /\ bronze_dfs["patients"][s].patient_id # None
        /\ bronze_dfs["patients"][s].date_of_birth # None
        /\ bronze_dfs["patients"][s].first_name # None
        /\ bronze_dfs["patients"][s].last_name # None}

\* the gender the spec gives a source value
GenderOf(g) ==
    CASE g = "M" -> "Male"
      [] g = "F" -> "Female"
      [] g = "O" -> "Other"
      [] g = None -> "Unknown"
      [] OTHER -> g

\* what makes the patient transform return no row at all, none of which
\* looks at the gender: no source row, no row with the required fields, a
\* date of birth that is not a date, payers without encounters
EmptyForAnotherReason ==
    \/ RequiredPatients = {}
    \/ \E s \in RequiredPatients :
          ~ToDatetime(bronze_dfs["patients"][s].date_of_birth).valid
    \/ Len(bronze_dfs["encounters"]) = 0 /\ Len(bronze_dfs["payers"]) > 0

\* C13: every output patient row has the gender of a source row of its
\* patient_id, mapped M -> Male, F -> Female, O -> Other, missing ->
\* Unknown and anything else unchanged; no row is dropped for its gender:
\* when the transform outputs rows at all, every source row with the four
\* required fields is output with its mapped gender, whatever the gender,
\* and the transform outputs no row only for a reason other than gender.
C13_GenderMapping ==
    TransformDone(1) =>
        LET src == bronze_dfs["patients"]
            out == candidate[PATIENTS]
        IN  /\ \A k \in 1..Len(out) : \E s \in RequiredPatients :
                  /\ out[k].patient_id = src[s].patient_id
                  /\ out[k].gender = GenderOf(src[s].gender)
            /\ Len(out) = 0 => EmptyForAnotherReason
            /\ Len(out) > 0 =>
                  \A s \in RequiredPatients : \E k \in 1..Len(out) :
                      /\ out[k].patient_id = src[s].patient_id
                      /\ out[k].gender = GenderOf(src[s].gender)

\* C13 witness: a source row of gender "X" and one without gender are output
\* as "X" and "Unknown"
C13_Witness ==
    /\ TransformDone(1)
    /\ \E s \in RequiredPatients : bronze_dfs["patients"][s].gender = "X"
    /\ \E s \in RequiredPatients : bronze_dfs["patients"][s].gender = None
    /\ \E k \in 1..Len(candidate[PATIENTS]) : candidate[PATIENTS][k].gender = "X"
    /\ \E k \in 1..Len(candidate[PATIENTS]) : candidate[PATIENTS][k].gender = "Unknown"

\* C14 (as claimed, for runs without a failing store call): a second run
\* over the same Bronze tables with the same processing timestamp ends with
\* the same Silver tables and the same statistics as the first.
C14_SecondRunIdentical ==
    (/\ pc = "done"
     /\ previous # NoRun
     /\ previous.clean
     /\ ~StoreCallFailed
     /\ previous.processing_timestamp = processing_timestamp) =>
        /\ silver = previous.silver
        /\ stats = previous.stats

\* C15: every run of load_silver reaches the summary and then Done, whatever
\* failed for the five tables: once constructed the run never aborts, the
\* summary is produced exactly once, in the step after the load step of the
\* last table, and Done is reached with it.
C15_RunReachesSummaryAndDone ==
    /\ [](pc = "fatal" => cur = 0)
    /\ [](summaries <= 1 /\ (summaries = 1 <=> pc = "done"))
    /\ [][summaries' # summaries =>
              /\ pc = "summarize"
              /\ cur = Len(Targets)
              /\ stats.loaded_tables + Len(stats.failed_tables) = Len(Targets)
              /\ pc' = "done"
              /\ stats' = stats]_vars
    /\ (pc = "extract") ~> (pc = "summarize")
    /\ (pc = "summarize") ~> (pc = "done" /\ summaries = 1)

\* C15 witness: a run with a failed extraction, a table rejected by
\* validation and a table loaded ended with its one summary
C15_Witness ==
    /\ pc = "done"
    /\ summaries = 1
    /\ read_failed # {}
    /\ \E t \in TargetSet : t \o " (Schema Validation)" \in Range(stats.failed_tables)
    /\ loaded # << >>

\* how the i-th target appears in the failed-table list of the summary
MarkedFailed(i) == Targets[i] \o " (Schema Validation)" \in Range(stats.failed_tables)
PlainFailed(i) == Targets[i] \in Range(stats.failed_tables)

\* the i-th target failed for I/O: the read of its source raised, or its
\* load step raised on a candidate that had rows
FailedForIo(i) ==
    /\ PlainFailed(i)
    /\ \/ SourcesOf(Targets[i])[1] \in read_failed
       \/ candidate[Targets[i]] # << >>

\* the i-th target failed with a candidate that is merely empty: its source
\* was read, and the transform returned no row
FailedAsEmpty(i) ==
    /\ PlainFailed(i)
    /\ SourcesOf(Targets[i])[1] \notin read_failed
    /\ candidate[Targets[i]] = << >>

\* C16 (as claimed): an entry of the failed-table list carries the
\* schema-validation mark exactly when validation rejected the candidate,
\* and the entry of a table that failed for I/O differs in form from the
\* entry of a table whose candidate was merely empty.
C16_FailedListTellsKind ==
    /\ \A i \in 1..5 :
          LoadDone(i) =>
              (MarkedFailed(i) <=>
                  (Targets[i] \in validated /\ failure_cases[Targets[i]] # {}))
    /\ \A i, j \in 1..5 :
          (LoadDone(i) /\ LoadDone(j) /\ FailedForIo(i) /\ FailedAsEmpty(j)) =>
              (MarkedFailed(i) \/ MarkedFailed(j))

\* C17: the processing timestamp is fixed when the orchestrator is
\* constructed and no later step of the run changes it; every row of every
\* Silver table the run has written carries that one value, whatever the
\* wall clock showed when the table was written.
C17_UniformTimestamp ==
    /\ [][processing_timestamp' # processing_timestamp =>
              (pc = "idle" /\ pc' = "extract" /\ processing_timestamp' = now)]_vars
    /\ [](\A t \in Range(loaded) : \A k \in 1..Len(silver[t]) :
              silver[t][k].silver_processing_timestamp
                  = [valid |-> TRUE, days |-> processing_timestamp])

\* C17 witness: the day changed during the run, and two tables written
\* before and after carry the timestamp of the construction
C17_Witness ==
    /\ pc = "done"
    /\ now > processing_timestamp
    /\ Len(loaded) >= 2
    /\ \A t \in Range(loaded) :
          /\ Len(silver[t]) > 0
          /\ \A k \in 1..Len(silver[t]) :
                silver[t][k].silver_processing_timestamp.days = processing_timestamp

\* the extraction of source s is over: its rows are in bronze_dfs, or its
\* read raised
Extracted(s) == s \in read_failed \/ bronze_dfs[s] = bronze[s]

\* the load step of the i-th of the five tables has recorded its outcome
HasOutcome(i) == TimesLoaded(FiveTables[i]) + TimesFailed(FiveTables[i]) >= 1

\* the i-th table is in progress: it has a candidate and no outcome yet
InProgress(i) == candidate[FiveTables[i]] # << >> /\ ~HasOutcome(i)

\* C18: the five extractions are over before the first transform; the
\* tables are processed in the order patients, claims, claims_transactions,
\* encounters, payers; the outcome of a table is recorded before the
\* transform of the next one, so at most one table is in progress.
C18_Ordering ==
    /\ [](pc = "extract" =>
              /\ \A i \in 1..5 : candidate[FiveTables[i]] = << >> /\ ~HasOutcome(i)
              /\ \A k \in 1..5 : Extracted(Sources[k]) <=> k < cur)
    /\ [](pc \in {"transform", "load", "summarize", "done"} =>
              \A s \in SourceSet : Extracted(s))
    /\ [](\A i \in 1..5 :
              (HasOutcome(i) \/ candidate[FiveTables[i]] # << >>) =>
                  \A j \in 1..(i - 1) : HasOutcome(j))
    /\ [](Cardinality({i \in 1..5 : InProgress(i)}) <= 1)
    /\ [][bronze_dfs' # bronze_dfs =>
              (pc = "extract" /\ candidate' = candidate /\ stats' = stats)]_vars
    /\ [][candidate' # candidate =>
              \E i \in 1..5 :
                  /\ \A j \in (1..5) \ {i} : candidate'[FiveTables[j]] = candidate[FiveTables[j]]
                  /\ \A j \in 1..5 : HasOutcome(j) <=> j < i
                  /\ stats' = stats
                  /\ bronze_dfs' = bronze_dfs]_vars
    /\ [][(stats' # stats /\ pc = "load") =>
              \E i \in 1..5 :
                  /\ \A j \in 1..5 : HasOutcome(j) <=> j < i
                  /\ \A j \in 1..5 : HasOutcome(j)' <=> j <= i
                  /\ \A j \in (i + 1)..5 : candidate[FiveTables[j]] = << >>
                  /\ candidate' = candidate]_vars

\* C18 witness: the third table has its candidate and no outcome, the first
\* two have their outcomes, the last two have not been transformed
C18_Witness ==
    /\ \A s \in SourceSet : Extracted(s)
    /\ HasOutcome(1)
    /\ HasOutcome(2)
    /\ InProgress(3)
    /\ candidate[FiveTables[4]] = << >>
    /\ candidate[FiveTables[5]] = << >>
    /\ bronze_dfs["encounters"] # << >>
    /\ bronze_dfs["payers"] # << >>

RECURSIVE RowsOfTables(_)
\* the rows of the Silver tables of a set of table names, added up
RowsOfTables(S) ==
    IF S = {} THEN 0
    ELSE LET t == CHOOSE t \in S : TRUE
         IN  Len(silver[t]) + RowsOfTables(S \ {t})

\* C19: at every point of a run loaded_tables plus the length of
\* failed_tables is the number of tables whose load step is over, 5 at the
\* summary; every such table is counted once, as loaded or as failed and
\* never as both; total_records is the number of rows of the validated
\* tables recorded as loaded, a failed table adding nothing.
C19_StatsAccounting ==
    /\ stats.loaded_tables + Len(stats.failed_tables)
          = Cardinality({i \in 1..5 : LoadDone(i)})
    /\ pc \in {"summarize", "done"} =>
          stats.loaded_tables + Len(stats.failed_tables) = 5
    /\ stats.loaded_tables = Cardinality(Range(loaded))
    /\ stats.loaded_tables = Len(loaded)
    /\ \A i \in 1..5 :
          /\ TimesLoaded(FiveTables[i]) <= 1
          /\ TimesFailed(FiveTables[i]) <= 1
          /\ ~(TimesLoaded(FiveTables[i]) = 1 /\ TimesFailed(FiveTables[i]) = 1)
    /\ \A t \in Range(loaded) : t \in validated /\ failure_cases[t] = {}
    /\ stats.total_records = RowsOfTables(Range(loaded))

\* C19 witness: a finished run with two tables failed and three loaded, one
\* of them with two rows
C19_Witness ==
    /\ pc = "done"
    /\ Len(stats.failed_tables) = 2
    /\ stats.loaded_tables = 3
    /\ stats.total_records >= 4
    /\ \E t \in Range(loaded) : Len(silver[t]) = 2
    /\ \E i \in 1..5 : PlainFailed(i) /\ Len(silver[FiveTables[i]]) > 0

\* C20 (as claimed, for patients whose date of birth is a date): with an
\* empty encounter source, every source patient with the four required
\* fields is output once, with the default payer name and a null payer_id,
\* with and without payers.
C20_EmptyEncountersKeepPatients ==
    (/\ TransformDone(1)
     /\ Len(bronze_dfs["encounters"]) = 0
     /\ RequiredPatients # {}
     /\ \A s \in RequiredPatients :
           ToDatetime(bronze_dfs["patients"][s].date_of_birth).valid) =>
        /\ Len(candidate[PATIENTS]) = Cardinality(RequiredPatients)
        /\ \A k \in 1..Len(candidate[PATIENTS]) :
              /\ candidate[PATIENTS][k].payer_name = "Self-Pay / Unspecified"
              /\ candidate[PATIENTS][k].payer_id = None

\* the payer merge can run: there are encounter rows, or there is no payer
\* row (otherwise the frame has no payer_id column to merge on)
PayerMergeCanRun ==
    Len(bronze_dfs["encounters"]) > 0 \/ Len(bronze_dfs["payers"]) = 0

\* the source patients with the four required fields whose date of birth
\* is a date
DatedPatients ==
    {s \in RequiredPatients : ToDatetime(bronze_dfs["patients"][s].date_of_birth).valid}

\* C21 (as claimed, where the payer merge can run): a patient row whose
\* date_of_birth is present and is not a date is dropped like one without
\* date_of_birth: no output row has an invalid date_of_birth, and every
\* other source row with the four required fields is still output; one
\* such row never makes the transform return the empty table.
C21_BadDateOfBirthDropsOneRow ==
    (TransformDone(1) /\ PayerMergeCanRun) =>
        LET src == bronze_dfs["patients"]
            out == candidate[PATIENTS]
        IN  /\ \A k \in 1..Len(out) : out[k].date_of_birth.valid
            /\ \A s \in DatedPatients : \E k \in 1..Len(out) :
                  /\ out[k].patient_id = src[s].patient_id
                  /\ out[k].date_of_birth = ToDatetime(src[s].date_of_birth)
            /\ DatedPatients # {} => Len(out) > 0

\* C22 (as claimed, where every date of birth is a date and the payer merge
\* can run): the transform outputs exactly one row for each source patient
\* row with the four required fields, in source order; the joins to the
\* latest encounter and to the payers add, duplicate and remove no row,
\* also when a payer_id occurs in several payer rows.
C22_EnrichmentPreservesRows ==
    (TransformDone(1) /\ PayerMergeCanRun /\ DatedPatients = RequiredPatients) =>
        LET src == bronze_dfs["patients"]
            out == candidate[PATIENTS]
        IN  /\ Len(out) = Cardinality(RequiredPatients)
            /\ \A s \in RequiredPatients :
                  LET k == Cardinality({x \in RequiredPatients : x <= s})
                  IN  k <= Len(out) => out[k].patient_id = src[s].patient_id

===========================================================================
